---- MODULE Spec2Model ----
(***************************************************************************)
(* A state-machine model of pyqtgraph's InfiniteLine and its InfLineLabel  *)
(* (src/pyqtgraph/graphicsItems/InfiniteLine.py).                          *)
(*                                                                         *)
(* Numbers are integers.  A Python list/tuple position is a record         *)
(* [kind, x, y]; an optional value (None or v) is <<>> or <<v>>.           *)
(* Every handler is one action; the handler's body is an operator on the   *)
(* record of all object fields (Cur), so that handlers which call each     *)
(* other (setBounds -> setValue -> setPos -> signal -> valueChanged)       *)
(* compose as in the source.                                               *)
(***************************************************************************)
EXTENDS Integers, Sequences, FiniteSets, TLC

VARIABLES
    angle,          \* InfiniteLine.angle
    p,              \* InfiniteLine.p : the list (or tuple) object holding the position
    qpos,           \* the QGraphicsItem position, set by GraphicsObject.setPos
    maxRange,       \* InfiniteLine.maxRange : <<min, max>>, each None or a number
    movable,        \* InfiniteLine.movable
    moving,         \* InfiniteLine.moving
    cursorOffset,   \* InfiniteLine.cursorOffset (unset until the first drag start)
    startPosition,  \* InfiniteLine.startPosition (unset until the first drag start)
    _line,          \* InfiniteLine._line : cached segment, None or <<[x1, x2]>>
    _boundingRect,  \* InfiniteLine._boundingRect : cached rectangle, None or <<rect>>
    visible,        \* InfLineLabel visibility (QGraphicsItem.isVisible)
    text,           \* InfLineLabel displayed plain text
    orthoPos,       \* InfLineLabel.orthoPos, a rational <<num, den>>
    labelMovable,   \* InfLineLabel.movable
    _moving,        \* InfLineLabel._moving : "unset", "True" or "False"
    _cursorOffset,  \* InfLineLabel._cursorOffset : unset or a rational
    _startPosition, \* InfLineLabel._startPosition : unset or a rational
    labelPos,       \* the label item's position <<along, across>> the line axis
                    \* (local coordinates, rationals)
    pen,            \* InfiniteLine.pen : the resting pen [color, width]
    hoverPen,       \* InfiniteLine.hoverPen
    currentPen,     \* InfiniteLine.currentPen : the pen paint() draws with
    mouseHovering,  \* InfiniteLine.mouseHovering
    hasParent,      \* whether the label (a TextItem) has a parent item
    sceneTransform, \* the scene transform of the label's parent item (host)
    _lastTransform, \* TextItem._lastTransform : None or <<transform>>
    transform,      \* the label's own transform (QGraphicsItem.transform)
    view,           \* the host ViewBox the line is in: None or <<[x0,x1,y0,y1,px]>>
    dragItem,       \* the host scene's current drag target: "none", "line" or "label"
    emitted,        \* the signals emitted by the last call, in order
    observed,       \* what the slots of sigPositionChanged saw during the last call
    raised,         \* the exception the last call raised ("" if none)
    lastCall        \* the last call and its argument

vars == <<angle, p, qpos, maxRange, movable, moving, cursorOffset, startPosition,
          _line, _boundingRect, visible, text, orthoPos, labelMovable, _moving,
          _cursorOffset, _startPosition, labelPos, pen, hoverPen, currentPen,
          mouseHovering, hasParent, sceneTransform, _lastTransform, transform,
          view, dragItem, emitted, observed, raised, lastCall>>

(***************************************************************************)
(* Bounds of the model.                                                    *)
(***************************************************************************)
MaxCoord == 2
Coord == (0 - MaxCoord)..MaxCoord
MaxY == 1

None == <<>>
Some(v) == <<v>>

Max(a, b) == IF a >= b THEN a ELSE b
Min(a, b) == IF a <= b THEN a ELSE b
Abs(a) == IF a < 0 THEN 0 - a ELSE a

(***************************************************************************)
(* Rationals <<num, den>> with den > 0, kept in lowest terms.              *)
(***************************************************************************)
RECURSIVE Gcd(_, _)
Gcd(a, b) == IF b = 0 THEN a ELSE Gcd(b, a % b)

Rat(n, d) ==
    LET s == IF d < 0 THEN 0 - 1 ELSE 1
        g == Gcd(Abs(n), Abs(d))
    IN  IF n = 0 THEN <<0, 1>> ELSE <<(s * n) \div g, (s * d) \div g>>
RatAdd(a, b) == Rat(a[1] * b[2] + b[1] * a[2], a[2] * b[2])
RatSub(a, b) == Rat(a[1] * b[2] - b[1] * a[2], a[2] * b[2])
RatMul(a, b) == Rat(a[1] * b[1], a[2] * b[2])
RatInt(n) == <<n, 1>>

(***************************************************************************)
(* The record of all fields, and its commit to the next state.             *)
(***************************************************************************)
Cur ==
    [angle |-> angle, p |-> p, qpos |-> qpos, maxRange |-> maxRange,
     movable |-> movable, moving |-> moving, cursorOffset |-> cursorOffset,
     startPosition |-> startPosition, _line |-> _line,
     _boundingRect |-> _boundingRect, visible |-> visible, text |-> text,
     orthoPos |-> orthoPos, labelMovable |-> labelMovable, _moving |-> _moving,
     _cursorOffset |-> _cursorOffset, _startPosition |-> _startPosition,
     labelPos |-> labelPos, pen |-> pen, hoverPen |-> hoverPen,
     currentPen |-> currentPen, mouseHovering |-> mouseHovering,
     hasParent |-> hasParent, sceneTransform |-> sceneTransform,
     _lastTransform |-> _lastTransform, transform |-> transform,
     view |-> view, dragItem |-> dragItem,
     emitted |-> <<>>, observed |-> <<>>, raised |-> ""]

Commit(s) ==
    /\ angle' = s.angle
    /\ p' = s.p
    /\ qpos' = s.qpos
    /\ maxRange' = s.maxRange
    /\ movable' = s.movable
    /\ moving' = s.moving
    /\ cursorOffset' = s.cursorOffset
    /\ startPosition' = s.startPosition
    /\ _line' = s._line
    /\ _boundingRect' = s._boundingRect
    /\ visible' = s.visible
    /\ text' = s.text
    /\ orthoPos' = s.orthoPos
    /\ labelMovable' = s.labelMovable
    /\ _moving' = s._moving
    /\ _cursorOffset' = s._cursorOffset
    /\ _startPosition' = s._startPosition
    /\ labelPos' = s.labelPos
    /\ pen' = s.pen
    /\ hoverPen' = s.hoverPen
    /\ currentPen' = s.currentPen
    /\ mouseHovering' = s.mouseHovering
    /\ hasParent' = s.hasParent
    /\ sceneTransform' = s.sceneTransform
    /\ _lastTransform' = s._lastTransform
    /\ transform' = s.transform
    /\ view' = s.view
    /\ dragItem' = s.dragItem
    /\ emitted' = s.emitted
    /\ observed' = s.observed
    /\ raised' = s.raised

InitState(s) ==
    /\ angle = s.angle
    /\ p = s.p
    /\ qpos = s.qpos
    /\ maxRange = s.maxRange
    /\ movable = s.movable
    /\ moving = s.moving
    /\ cursorOffset = s.cursorOffset
    /\ startPosition = s.startPosition
    /\ _line = s._line
    /\ _boundingRect = s._boundingRect
    /\ visible = s.visible
    /\ text = s.text
    /\ orthoPos = s.orthoPos
    /\ labelMovable = s.labelMovable
    /\ _moving = s._moving
    /\ _cursorOffset = s._cursorOffset
    /\ _startPosition = s._startPosition
    /\ labelPos = s.labelPos
    /\ pen = s.pen
    /\ hoverPen = s.hoverPen
    /\ currentPen = s.currentPen
    /\ mouseHovering = s.mouseHovering
    /\ hasParent = s.hasParent
    /\ sceneTransform = s.sceneTransform
    /\ _lastTransform = s._lastTransform
    /\ transform = s.transform
    /\ view = s.view
    /\ dragItem = s.dragItem
    /\ emitted = s.emitted
    /\ observed = s.observed
    /\ raised = s.raised

\* A call that raised: the exception propagates to the caller.
Raise(s, exc) == [s EXCEPT !.raised = exc]

(***************************************************************************)
(* Host geometry (GraphicsItem.viewRect, ViewBox.viewRect, itemTransform,  *)
(* pixelLength).  The line item is rotated by `angle` and translated to    *)
(* qpos; a parent point (X, Y) has local x-coordinate                      *)
(*   cos(angle) * (X - qx) + sin(angle) * (Y - qy).                        *)
(* Local coordinates are kept in thousandths; cos and sin are exact for    *)
(* the axis-aligned angles and rounded to three decimals otherwise.        *)
(***************************************************************************)
Cos1000(a) ==
    CASE a = 0 -> 1000 [] a = 90 -> 0 [] a = 45 -> 707
      [] a = 0 - 45 -> 707 [] a = 134 -> 0 - 695
Sin1000(a) ==
    CASE a = 0 -> 0 [] a = 90 -> 1000 [] a = 45 -> 707
      [] a = 0 - 45 -> 0 - 707 [] a = 134 -> 719

LocalX(s, X, Y) ==
    Cos1000(s.angle) * (X - s.qpos[1]) + Sin1000(s.angle) * (Y - s.qpos[2])

SetMin(S) == CHOOSE m \in S : \A n \in S : m <= n
SetMax(S) == CHOOSE m \in S : \A n \in S : m >= n

\* The view rectangle mapped into the line's local frame: its extent along
\* the line axis.  Only called with a view attached.
ViewExtent(s) ==
    LET v == s.view[1]
        xs == {LocalX(s, X, Y) : X \in {v.x0, v.x1}, Y \in {v.y0, v.y1}}
    IN  [left |-> SetMin(xs), right |-> SetMax(xs)]

(***************************************************************************)
(* InfiniteLine.value, lines 206-214.                                      *)
(***************************************************************************)
getXPos(s) == s.p.x
getYPos(s) == s.p.y
getPos(s) == s.p

\* A value is a number, or the position object itself.
valueSwapped(s) ==
    IF s.angle % 180 = 0 THEN [form |-> "num", n |-> getXPos(s), obj |-> None]
    ELSE IF s.angle % 180 = 90 THEN [form |-> "num", n |-> getYPos(s), obj |-> None]
    ELSE [form |-> "obj", n |-> 0, obj |-> Some(getPos(s))]
value(s) ==
    IF s.angle % 180 = 0 THEN [form |-> "num", n |-> getYPos(s), obj |-> None]
    ELSE IF s.angle % 180 = 90 THEN [form |-> "num", n |-> getXPos(s), obj |-> None]
    ELSE [form |-> "obj", n |-> 0, obj |-> Some(getPos(s))]

(***************************************************************************)
(* str.format of the label template "{value}" (line 365): str() of a       *)
(* number, of a list "[x, y]" or of a tuple "(x, y)".                      *)
(***************************************************************************)
PyStr(o) ==
    IF o.kind = "list"
    THEN "[" \o ToString(o.x) \o ", " \o ToString(o.y) \o "]"
    ELSE "(" \o ToString(o.x) \o ", " \o ToString(o.y) \o ")"

Format(v) == IF v.form = "num" THEN ToString(v.n) ELSE PyStr(v.obj[1])

(***************************************************************************)
(* InfLineLabel.updatePosition, lines 377-391.                             *)
(***************************************************************************)
\* line 390, one coordinate: pt2 * orthoPos + pt1 * (1 - orthoPos)
InterpolateSwapped(c1, c2, o) ==
    RatAdd(RatMul(c1, o), RatMul(c2, RatSub(RatInt(1), o)))
Interpolate(c1, c2, o) ==
    RatAdd(RatMul(c2, o), RatMul(c1, RatSub(RatInt(1), o)))

updatePosition(s) ==
    IF ~s.visible \/ s.view = None THEN s
    ELSE LET vr == ViewExtent(s)
             pt1 == <<RatInt(vr.left), RatInt(0)>>
             pt2 == <<RatInt(vr.right), RatInt(0)>>
             pt == <<Interpolate(pt1[1], pt2[1], s.orthoPos),
                     Interpolate(pt1[2], pt2[2], s.orthoPos)>>
         IN  [s EXCEPT !.labelPos = pt]

(***************************************************************************)
(* InfLineLabel.valueChanged, lines 370-375.                               *)
(***************************************************************************)
valueChanged(s) ==
    IF ~s.visible THEN s
    ELSE updatePosition([s EXCEPT !.text = Format(value(s))])

(***************************************************************************)
(* InfLineLabel.setVisible, lines 393-397.  TextItem.updateText (TextItem  *)
(* lines 108-114) only re-anchors the text element; it leaves the text.    *)
(***************************************************************************)
updateText(s) == s

setVisible(s, v) ==
    LET s1 == [s EXCEPT !.visible = v]
    IN  IF v THEN updatePosition(updateText(s1)) ELSE s1

(***************************************************************************)
(* Signals.  sigPositionChanged is connected to the label's valueChanged   *)
(* (line 366); slots run synchronously inside emit.                        *)
(***************************************************************************)
\* what a slot of sigPositionChanged reads from the line when it runs
Observe(s) ==
    [p |-> s.p, qpos |-> s.qpos,
     cleared |-> s._line = None /\ s._boundingRect = None]

Emit(s, sig) ==
    LET s1 == [s EXCEPT !.emitted = Append(@, sig)]
    IN  IF sig = "sigPositionChanged"
        THEN valueChanged([s1 EXCEPT !.observed = Append(@, Observe(s1))])
        ELSE s1

(***************************************************************************)
(* InfiniteLine._invalidateCache, lines 232-234.                           *)
(***************************************************************************)
invalidateCacheLineOnly(s) == [s EXCEPT !._line = None]
invalidateCache(s) == [s EXCEPT !._line = None, !._boundingRect = None]

(***************************************************************************)
(* InfiniteLine.setPos, lines 165-195.                                     *)
(* An argument is [form, x, y]: "scalar" (x is the number), "list",        *)
(* "tuple", "point" (a QPointF), or "self": the very list object self.p,   *)
(* as returned by getPos() or kept by the caller of an earlier setPos.     *)
(***************************************************************************)
Arg(form, x, y) == [form |-> form, x |-> x, y |-> y]

\* lines 179-189: one coordinate against maxRange
ClampNoMax(v, r) == IF r[1] # None THEN Max(v, r[1][1]) ELSE v
ClampValue(v, r) ==
    LET a == IF r[1] # None THEN Max(v, r[1][1]) ELSE v
    IN  IF r[2] # None THEN Min(a, r[2][1]) ELSE a

Bounded(s) == s.maxRange[1] # None \/ s.maxRange[2] # None

\* lines 167-177: the list newPos before the bounds check
NewPos(s, arg) ==
    CASE arg.form = "list" -> [kind |-> "list", x |-> arg.x, y |-> arg.y]
      [] arg.form = "self" -> s.p
      [] arg.form = "tuple" -> [kind |-> "tuple", x |-> arg.x, y |-> arg.y]
      [] arg.form = "point" -> [kind |-> "list", x |-> arg.x, y |-> arg.y]
      [] arg.form = "scalar" ->
            IF s.angle = 90 THEN [kind |-> "list", x |-> arg.x, y |-> 0]
            ELSE [kind |-> "list", x |-> 0, y |-> arg.x]

\* lines 179-189
CheckBounds(s, np) ==
    IF s.angle = 90 THEN [np EXCEPT !.x = ClampValue(@, s.maxRange)]
    ELSE IF s.angle = 0 THEN [np EXCEPT !.y = ClampValue(@, s.maxRange)]
    ELSE np

ScalarRaisesNever(s, arg) == FALSE
ScalarRaises(s, arg) == arg.form = "scalar" /\ s.angle # 90 /\ s.angle # 0

\* item assignment into a tuple (lines 182-189) raises TypeError
TupleRaises(s, np) == np.kind = "tuple" /\ s.angle \in {0, 90} /\ Bounded(s)

\* line 191: list != list and tuple != tuple compare by value; a list and a
\* tuple are never equal.  With "self", newPos is self.p itself.
Differs(s, arg, np) == IF arg.form = "self" THEN FALSE ELSE s.p # np

setPos(s, arg) ==
    IF ScalarRaises(s, arg)
    THEN Raise(s, "Exception")
    ELSE LET np0 == NewPos(s, arg)
         IN  IF TupleRaises(s, np0)
             THEN Raise(s, "TypeError")
             ELSE LET np == CheckBounds(s, np0)
                      \* the bounds check writes into the argument list: when
                      \* that list is self.p, self.p changes in place
                      s1 == IF arg.form = "self" THEN [s EXCEPT !.p = np] ELSE s
                  IN  IF Differs(s, arg, np)
                      THEN Emit([invalidateCache([s1 EXCEPT !.p = np])
                                    EXCEPT !.qpos = <<np.x, np.y>>],
                                "sigPositionChanged")
                      ELSE s1

(***************************************************************************)
(* InfiniteLine.setValue, lines 216-220, with the result of value() as     *)
(* argument: a number, or the position object itself.                      *)
(***************************************************************************)
setValue(s, arg) == setPos(s, arg)

ValueArg(s) ==
    LET v == value(s)
    IN  IF v.form = "num" THEN Arg("scalar", v.n, 0)
        ELSE IF s.p.kind = "list" THEN Arg("self", s.p.x, s.p.y)
        ELSE Arg("tuple", s.p.x, s.p.y)

(***************************************************************************)
(* InfiniteLine.setBounds, lines 126-129.                                  *)
(***************************************************************************)
setBoundsNoReclamp(s, bounds) == [s EXCEPT !.maxRange = bounds]
setBounds(s, bounds) ==
    LET s1 == [s EXCEPT !.maxRange = bounds]
    IN  setValue(s1, ValueArg(s1))

(***************************************************************************)
(* InfiniteLine.setAngle, lines 152-163.                                   *)
(***************************************************************************)
NormalizeNoOffset(a) == a % 180
Normalize(a) == ((a + 45) % 180) - 45

setAngle(s, a) == [s EXCEPT !.angle = Normalize(a)]

(***************************************************************************)
(* InfiniteLine.setMovable, lines 121-124; InfLineLabel.setMovable.        *)
(***************************************************************************)
setMovable(s, m) == [s EXCEPT !.movable = m]
labelSetMovable(s, m) == [s EXCEPT !.labelMovable = m]

(***************************************************************************)
(* InfiniteLine.setPen, setHoverPen, lines 131-150; setMouseHover,         *)
(* lines 294-303; hoverEvent, lines 288-292.  A pen is [color, width].     *)
(* A hover event tells whether the pointer leaves the item (isExit) and    *)
(* what ev.acceptDrags(LeftButton) answers: False when another item has    *)
(* claimed the drag.                                                       *)
(***************************************************************************)
mkPen(color, width) == [color |-> color, width |-> width]

setPenAlways(s, newPen) == [s EXCEPT !.pen = newPen, !.currentPen = newPen]
setPen(s, newPen) ==
    LET s1 == [s EXCEPT !.pen = newPen]
    IN  IF ~s1.mouseHovering THEN [s1 EXCEPT !.currentPen = s1.pen] ELSE s1

setHoverPen(s, newPen) ==
    LET s1 == [s EXCEPT !.hoverPen = newPen]
    IN  IF s1.mouseHovering THEN [s1 EXCEPT !.currentPen = s1.hoverPen] ELSE s1

setMouseHover(s, hover) ==
    IF s.mouseHovering = hover THEN s
    ELSE LET s1 == [s EXCEPT !.mouseHovering = hover]
         IN  IF hover THEN [s1 EXCEPT !.currentPen = s1.hoverPen]
             ELSE [s1 EXCEPT !.currentPen = s1.pen]

hoverEvent(s, isExit, acceptDrags) ==
    IF ~isExit /\ s.movable /\ acceptDrags
    THEN setMouseHover(s, TRUE)
    ELSE setMouseHover(s, FALSE)

(***************************************************************************)
(* InfiniteLine.boundingRect, lines 236-251.  Called by the host for an    *)
(* item inside a view.  viewRect() is the view rectangle in local          *)
(* coordinates; px the length of a pixel orthogonal to the line.  The      *)
(* margin (max(4, pen.width / 2, hoverPen.width / 2) + 1) * px is computed *)
(* in half units to stay in the integers (px is even).                     *)
(***************************************************************************)
ComputeRect(s) ==
    LET vr == ViewExtent(s)
        w == ((Max(8, Max(s.pen.width, s.hoverPen.width)) + 2) * s.view[1].px) \div 2
    IN  [left |-> vr.left, right |-> vr.right, top |-> 0 - w, bottom |-> w]

boundingRect(s) ==
    IF s._boundingRect = None
    THEN LET br == ComputeRect(s)
         IN  [s EXCEPT !._boundingRect = Some(br),
                       !._line = Some([x1 |-> br.right, x2 |-> br.left])]
    ELSE s

(***************************************************************************)
(* InfiniteLine.viewTransformChanged, lines 305-311.                       *)
(***************************************************************************)
viewTransformChangedKeepCache(s) == updatePosition(s)
viewTransformChanged(s) == updatePosition(invalidateCache(s))

(***************************************************************************)
(* InfiniteLine.showLabel, setTextLocation, setDraggableLabel,             *)
(* lines 313-349.                                                          *)
(***************************************************************************)
showLabel(s, state) == setVisible(s, state)
setTextLocation(s, position) == updatePosition([s EXCEPT !.orthoPos = position])
setDraggableLabel(s, state) == labelSetMovable(s, state)

(***************************************************************************)
(* Pointer events.  An event carries its button, whether it starts or      *)
(* finishes the gesture, and the pointer position at button-down (down)    *)
(* and now (pos), both in the line's parent coordinates: ev.pos() and      *)
(* ev.buttonDownPos() are local, and mapToParent brings them back.         *)
(***************************************************************************)
Event(button, isStart, isFinish, down, pos) ==
    [button |-> button, isStart |-> isStart, isFinish |-> isFinish,
     down |-> down, pos |-> pos]

(***************************************************************************)
(* InfiniteLine.mouseDragEvent, lines 263-278.  The result also tells      *)
(* whether the event was accepted.                                         *)
(***************************************************************************)
DragTarget(s, ev) ==
    Arg("point", s.cursorOffset[1][1] + ev.pos[1], s.cursorOffset[1][2] + ev.pos[2])
DragTargetNoOffset(s, ev) == Arg("point", ev.pos[1], ev.pos[2])

RestoreTarget(s) == Arg("point", s.startPosition[1][1], s.startPosition[1][2])
RestoreTargetCurrent(s) == Arg("point", s.qpos[1], s.qpos[2])

mouseDragEventNoMovingCheck(s, ev) ==
    IF s.movable /\ ev.button = "Left"
    THEN LET s1 == IF ev.isStart
                   THEN [s EXCEPT !.moving = TRUE,
                                  !.cursorOffset = Some(<<s.qpos[1] - ev.down[1],
                                                          s.qpos[2] - ev.down[2]>>),
                                  !.startPosition = Some(s.qpos)]
                   ELSE s
         IN  IF s1.cursorOffset = None
             THEN [st |-> s1, accepted |-> TRUE]
             ELSE LET s2 == Emit(setPos(s1, DragTarget(s1, ev)), "sigDragged")
                      s3 == IF ev.isFinish
                            THEN Emit([s2 EXCEPT !.moving = FALSE],
                                      "sigPositionChangeFinished")
                            ELSE s2
                  IN  [st |-> s3, accepted |-> TRUE]
    ELSE [st |-> s, accepted |-> FALSE]
mouseDragEvent(s, ev) ==
    IF s.movable /\ ev.button = "Left"
    THEN LET s1 == IF ev.isStart
                   THEN [s EXCEPT !.moving = TRUE,
                                  !.cursorOffset = Some(<<s.qpos[1] - ev.down[1],
                                                          s.qpos[2] - ev.down[2]>>),
                                  !.startPosition = Some(s.qpos)]
                   ELSE s
         IN  IF ~s1.moving
             THEN [st |-> s1, accepted |-> TRUE]
             ELSE LET s2 == Emit(setPos(s1, DragTarget(s1, ev)), "sigDragged")
                      s3 == IF ev.isFinish
                            THEN Emit([s2 EXCEPT !.moving = FALSE],
                                      "sigPositionChangeFinished")
                            ELSE s2
                  IN  [st |-> s3, accepted |-> TRUE]
    ELSE [st |-> s, accepted |-> FALSE]

(***************************************************************************)
(* InfiniteLine.mouseClickEvent, lines 280-286.                            *)
(***************************************************************************)
mouseClickEventSilent(s, button) ==
    IF s.moving /\ button = "Right"
    THEN LET s1 == setPos(s, RestoreTarget(s))
         IN  Emit([s1 EXCEPT !.moving = FALSE], "sigDragged")
    ELSE s
mouseClickEvent(s, button) ==
    IF s.moving /\ button = "Right"
    THEN LET s1 == setPos(s, RestoreTarget(s))
             s2 == Emit([s1 EXCEPT !.moving = FALSE], "sigDragged")
         IN  Emit(s2, "sigPositionChangeFinished")
    ELSE s

(***************************************************************************)
(* InfLineLabel._posToRel, lines 430-436: the pointer's position relative  *)
(* to the view extent along the line.  The result is [exc, rel].           *)
(***************************************************************************)
posToRel(s, pt) ==
    IF s.view = None
    THEN [exc |-> "AttributeError", rel |-> <<0, 1>>]
    ELSE LET vr == ViewExtent(s)
         IN  IF vr.right - vr.left = 0
             THEN [exc |-> "ZeroDivisionError", rel |-> <<0, 1>>]
             ELSE [exc |-> "",
                   rel |-> Rat(LocalX(s, pt[1], pt[2]) - vr.left, vr.right - vr.left)]

(***************************************************************************)
(* InfLineLabel.mouseDragEvent, lines 403-418.                             *)
(***************************************************************************)
\* line 415
NewOrthoPosClamped(s, rel) ==
    LET o == RatSub(RatAdd(s._startPosition[1], rel), s._cursorOffset[1])
    IN  IF o[1] < 0 THEN <<0, 1>> ELSE IF o[1] > o[2] THEN <<1, 1>> ELSE o
NewOrthoPos(s, rel) ==
    RatSub(RatAdd(s._startPosition[1], rel), s._cursorOffset[1])

labelMouseDragEvent(s, ev) ==
    IF s.labelMovable /\ ev.button = "Left"
    THEN LET down == posToRel(s, ev.down)
             s1 == IF ev.isStart THEN [s EXCEPT !._moving = "True"] ELSE s
             s2 == IF ev.isStart /\ down.exc = ""
                   THEN [s1 EXCEPT !._cursorOffset = Some(down.rel),
                                   !._startPosition = Some(s.orthoPos)]
                   ELSE s1
             rel == posToRel(s2, ev.pos)
         IN  IF ev.isStart /\ down.exc # ""
             THEN [st |-> Raise(s1, down.exc), accepted |-> FALSE]
             ELSE IF s2._moving = "unset"
             THEN [st |-> Raise(s2, "AttributeError"), accepted |-> TRUE]
             ELSE IF s2._moving = "False"
             THEN [st |-> s2, accepted |-> TRUE]
             ELSE IF rel.exc # ""
             THEN [st |-> Raise(s2, rel.exc), accepted |-> TRUE]
             ELSE LET s3 == updatePosition(
                                [s2 EXCEPT !.orthoPos = NewOrthoPos(s2, rel.rel)])
                  IN  [st |-> IF ev.isFinish THEN [s3 EXCEPT !._moving = "False"] ELSE s3,
                       accepted |-> TRUE]
    ELSE [st |-> s, accepted |-> FALSE]

(***************************************************************************)
(* InfLineLabel.mouseClickEvent, lines 420-424.  The handler reads         *)
(* self.moving, an attribute no InfLineLabel has (the drag handler keeps   *)
(* self._moving): the read raises AttributeError before anything else.     *)
(***************************************************************************)
labelMouseClickEvent(s, button) == Raise(s, "AttributeError")

(***************************************************************************)
(* TextItem.updateTransform, TextItem.py lines 145-165, with its callers   *)
(* viewTransformChanged (129-132) and paint (134-143).  A transform is     *)
(* the affine matrix [m11, m12, m21, m22, dx, dy]; the parent's scene      *)
(* transform has integer entries, the item's own transform rational ones.  *)
(***************************************************************************)
Identity == [m11 |-> 1, m12 |-> 0, m21 |-> 0, m22 |-> 1, dx |-> 0, dy |-> 0]
RatIdentity ==
    [m11 |-> <<1, 1>>, m12 |-> <<0, 1>>, m21 |-> <<0, 1>>, m22 |-> <<1, 1>>,
     dx |-> <<0, 1>>, dy |-> <<0, 1>>]

Det(t) == t.m11 * t.m22 - t.m12 * t.m21

\* QTransform.inverted()[0] of an invertible affine matrix
Inverted(t) ==
    LET d == Det(t)
    IN  [m11 |-> Rat(t.m22, d), m12 |-> Rat(0 - t.m12, d),
         m21 |-> Rat(0 - t.m21, d), m22 |-> Rat(t.m11, d),
         dx |-> Rat(t.m21 * t.dy - t.m22 * t.dx, d),
         dy |-> Rat(t.m12 * t.dx - t.m11 * t.dy, d)]

\* line 162: the translation reset
ResetTranslation(t) == [t EXCEPT !.dx = <<0, 1>>, !.dy = <<0, 1>>]

\* lines 151-155: the parent's scene transform, identity without a parent
ParentTransform(s) == IF ~s.hasParent THEN Identity ELSE s.sceneTransform

updateTransformKeepTranslation(s) ==
    LET pt == ParentTransform(s)
    IN  IF Some(pt) = s._lastTransform THEN s
        ELSE [s EXCEPT !.transform = Inverted(pt), !._lastTransform = Some(pt)]
updateTransform(s) ==
    LET pt == ParentTransform(s)
    IN  IF Some(pt) = s._lastTransform THEN s
        ELSE [s EXCEPT !.transform = ResetTranslation(Inverted(pt)),
                       !._lastTransform = Some(pt)]

textViewTransformChanged(s) == updateTransform(s)
textPaint(s) == updateTransform(s)

(***************************************************************************)
(* InfiniteLine.__init__, lines 70-119, and InfLineLabel.__init__,         *)
(* lines 360-368.  A new QGraphicsItem is visible and sits at (0, 0); its  *)
(* text is '' until valueChanged() sets it.                                *)
(***************************************************************************)
Construct(pos, ang, mov, bounds, label, draggableLabel) ==
    LET s0 == [angle |-> 0, p |-> [kind |-> "list", x |-> 0, y |-> 0],
               qpos |-> <<0, 0>>, maxRange |-> bounds, movable |-> FALSE,
               moving |-> FALSE, cursorOffset |-> None, startPosition |-> None,
               _line |-> None, _boundingRect |-> None, visible |-> TRUE,
               text |-> "", orthoPos |-> <<1, 2>>, labelMovable |-> FALSE,
               _moving |-> "unset", _cursorOffset |-> None,
               _startPosition |-> None, labelPos |-> <<<<0, 1>>, <<0, 1>>>>, view |-> None,
               pen |-> None, hoverPen |-> None, currentPen |-> None,
               mouseHovering |-> FALSE, hasParent |-> TRUE,
               sceneTransform |-> Identity, _lastTransform |-> None,
               transform |-> RatIdentity,
               dragItem |-> "none", emitted |-> <<>>, observed |-> <<>>,
               raised |-> ""]
        s1 == setAngle(setMovable(s0, mov), ang)
        s2 == valueChanged(s1)
        s3 == showLabel(setDraggableLabel(s2, draggableLabel), label)
        s4 == setPos(s3, pos)
        \* lines 104-111: the default pen, and a red hover pen of its width
        s5 == setPen(s4, mkPen("yellow", 1))
        s6 == setHoverPen(s5, mkPen("red", s5.pen.width))
        s7 == [s6 EXCEPT !.currentPen = s6.pen]
    IN  [invalidateCache(s7) EXCEPT !.emitted = <<>>, !.observed = <<>>]

Call(op, arg) == [op |-> op, arg |-> arg]

InitWith(pos, ang, mov, bounds, label, draggableLabel) ==
    /\ InitState(Construct(pos, ang, mov, bounds, label, draggableLabel))
    /\ lastCall = Call("init", <<>>)

(***************************************************************************)
(* Actions: one per call into the line or the label.  The host delivers    *)
(* the events of a drag gesture to the item that accepted its start event, *)
(* in the order start, move..., finish; an invisible item gets no events.  *)
(***************************************************************************)
\* drags that would take the line beyond the modelled coordinates are left out
InRange(s) == s.p.x \in Coord /\ s.p.y \in 0..MaxY

SetPos(arg) ==
    /\ Commit(setPos(Cur, arg))
    /\ lastCall' = Call("setPos", arg)

\* setPos(line.getPos()): the argument is the object self.p
SetPosSelf ==
    SetPos(Arg(IF p.kind = "list" THEN "self" ELSE "tuple", p.x, p.y))

SetValue(v) ==
    /\ Commit(setValue(Cur, Arg("scalar", v, 0)))
    /\ lastCall' = Call("setValue", Arg("scalar", v, 0))

SetBounds(b) ==
    /\ Commit(setBounds(Cur, b))
    /\ lastCall' = Call("setBounds", b)

SetAngle(a) ==
    /\ Commit(setAngle(Cur, a))
    /\ lastCall' = Call("setAngle", a)

SetMovable(m) ==
    /\ Commit(setMovable(Cur, m))
    /\ lastCall' = Call("setMovable", m)

ShowLabel(state) ==
    /\ Commit(showLabel(Cur, state))
    /\ lastCall' = Call("showLabel", state)

SetTextLocation(position) ==
    /\ Commit(setTextLocation(Cur, position))
    /\ lastCall' = Call("setTextLocation", position)

SetDraggableLabel(state) ==
    /\ Commit(setDraggableLabel(Cur, state))
    /\ lastCall' = Call("setDraggableLabel", state)

BoundingRect ==
    /\ view # None
    /\ Commit(boundingRect(Cur))
    /\ lastCall' = Call("boundingRect", <<>>)

\* the view's transform becomes v and the view notifies its items
ViewTransformChanged(v) ==
    /\ Commit(viewTransformChanged([Cur EXCEPT !.view = Some(v)]))
    /\ lastCall' = Call("viewTransformChanged", v)

SetPen(newPen) ==
    /\ Commit(setPen(Cur, newPen))
    /\ lastCall' = Call("setPen", newPen)

SetHoverPen(newPen) ==
    /\ Commit(setHoverPen(Cur, newPen))
    /\ lastCall' = Call("setHoverPen", newPen)

SetMouseHover(hover) ==
    /\ Commit(setMouseHover(Cur, hover))
    /\ lastCall' = Call("setMouseHover", hover)

\* the scene sends a hover event when the pointer moves over or off the line
HoverEvent(isExit, acceptDrags) ==
    /\ Commit(hoverEvent(Cur, isExit, acceptDrags))
    /\ lastCall' = Call("hoverEvent", <<isExit, acceptDrags>>)

\* the scene transform of the label's parent becomes t (the view is zoomed
\* or panned, the line is moved or rotated)
SceneTransformChanged(t) ==
    /\ Commit([Cur EXCEPT !.sceneTransform = t])
    /\ lastCall' = Call("sceneTransformChanged", t)

TextSetParentItem(b) ==
    /\ Commit([Cur EXCEPT !.hasParent = b])
    /\ lastCall' = Call("textSetParentItem", b)

TextViewTransformChanged ==
    /\ Commit(textViewTransformChanged(Cur))
    /\ lastCall' = Call("textViewTransformChanged", <<>>)

TextPaint ==
    /\ Commit(textPaint(Cur))
    /\ lastCall' = Call("textPaint", <<>>)

LineDragStart(button, down, pos) ==
    /\ dragItem = "none"
    /\ LET r == mouseDragEvent(Cur, Event(button, TRUE, FALSE, down, pos))
       IN  /\ InRange(r.st)
           /\ Commit([r.st EXCEPT !.dragItem = IF r.accepted THEN "line" ELSE "none"])
    /\ lastCall' = Call("lineDragStart", <<button, down, pos>>)

LineDragMove(pos) ==
    /\ dragItem = "line"
    /\ LET r == mouseDragEvent(Cur, Event("Left", FALSE, FALSE, pos, pos))
       IN  InRange(r.st) /\ Commit(r.st)
    /\ lastCall' = Call("lineDragMove", pos)

LineDragFinish(pos) ==
    /\ dragItem = "line"
    /\ LET r == mouseDragEvent(Cur, Event("Left", FALSE, TRUE, pos, pos))
       IN  InRange(r.st) /\ Commit([r.st EXCEPT !.dragItem = "none"])
    /\ lastCall' = Call("lineDragFinish", pos)

LineClick(button) ==
    /\ Commit(mouseClickEvent(Cur, button))
    /\ lastCall' = Call("lineClick", button)

LabelDragStart(button, down, pos) ==
    /\ dragItem = "none"
    /\ visible
    /\ LET r == labelMouseDragEvent(Cur, Event(button, TRUE, FALSE, down, pos))
       IN  Commit([r.st EXCEPT !.dragItem = IF r.accepted THEN "label" ELSE "none"])
    /\ lastCall' = Call("labelDragStart", <<button, down, pos>>)

LabelDragMove(pos) ==
    /\ dragItem = "label"
    /\ visible
    /\ Commit(labelMouseDragEvent(Cur, Event("Left", FALSE, FALSE, pos, pos)).st)
    /\ lastCall' = Call("labelDragMove", pos)

LabelDragFinish(pos) ==
    /\ dragItem = "label"
    /\ visible
    /\ Commit([labelMouseDragEvent(Cur, Event("Left", FALSE, TRUE, pos, pos)).st
                  EXCEPT !.dragItem = "none"])
    /\ lastCall' = Call("labelDragFinish", pos)

LabelClick(button) ==
    /\ visible
    /\ Commit(labelMouseClickEvent(Cur, button))
    /\ lastCall' = Call("labelClick", button)

(***************************************************************************)
(* Inputs.                                                                 *)
(***************************************************************************)
Buttons == {"Left", "Right"}
\* setAngle arguments: every class of the normalisation, and both edges
AngleArgs == {0 - 226, 0 - 46, 0 - 45, 0, 45, 90, 134, 135, 180, 225, 270, 314}
\* [min, max] with min <= max, either side absent
BoundsArgs ==
    {<<None, None>>, <<Some(0 - 1), Some(1)>>, <<Some(0 - 1), None>>,
     <<None, Some(1)>>, <<Some(0 - MaxCoord), Some(MaxCoord)>>}
PairArgs == {<<x, y>> : x \in {0 - MaxCoord, 0, MaxCoord}, y \in {0, MaxCoord}}
PosArgs ==
    {Arg("scalar", v, 0) : v \in Coord}
        \cup {Arg(f, xy[1], xy[2]) : f \in {"list", "tuple", "point"}, xy \in PairArgs}

(***************************************************************************)
(* Spec: the line's programmatic interface, label hidden.                  *)
(***************************************************************************)
Init ==
    \E ang \in {90, 0, 45}, b \in {<<None, None>>, <<Some(0 - 1), Some(1)>>} :
        InitWith(Arg("point", 0, 0), ang, FALSE, b, FALSE, FALSE)

Next ==
    \/ \E a \in PosArgs : SetPos(a)
    \/ SetPosSelf
    \/ \E v \in Coord : SetValue(v)
    \/ \E b \in BoundsArgs : SetBounds(b)
    \/ \E a \in AngleArgs : SetAngle(a)

Spec == Init /\ [][Next]_vars

(***************************************************************************)
(* SpecText: the label shown and hidden while the line is moved.           *)
(***************************************************************************)
InitText ==
    \E ang \in {90, 0, 45}, b \in {<<None, None>>, <<Some(0 - 1), Some(1)>>},
       label \in BOOLEAN :
        InitWith(Arg("point", 0, 0), ang, FALSE, b, label, FALSE)

NextText ==
    \/ \E a \in PosArgs : SetPos(a)
    \/ \E v \in Coord : SetValue(v)
    \/ \E b \in BoundsArgs : SetBounds(b)
    \/ \E state \in BOOLEAN : ShowLabel(state)

SpecText == InitText /\ [][NextText]_vars

(***************************************************************************)
(* SpecDrag: pointer gestures on the line, with calls of its interface     *)
(* between gestures.                                                       *)
(***************************************************************************)
PtrArgs == {<<0, 0>>, <<1, 0>>, <<1, 1>>}

InitDrag ==
    \E ang \in {90, 45}, mov \in BOOLEAN,
       b \in {<<None, None>>, <<Some(0 - 1), Some(1)>>} :
        InitWith(Arg("point", 0, 0), ang, mov, b, FALSE, FALSE)

NextDrag ==
    \/ \E b \in Buttons, down \in PtrArgs, pos \in PtrArgs : LineDragStart(b, down, pos)
    \/ \E pos \in PtrArgs : LineDragMove(pos)
    \/ \E pos \in PtrArgs : LineDragFinish(pos)
    \/ \E b \in Buttons : LineClick(b)
    \/ \E m \in BOOLEAN : SetMovable(m)
    \/ ~moving /\ \E a \in {90, 45} : SetAngle(a)
    \/ ~moving /\ \E x \in {0, MaxCoord} : SetPos(Arg("list", x, 0))

SpecDrag == InitDrag /\ [][NextDrag]_vars

(***************************************************************************)
(* SpecCache: the line inside a view; the host asks for the bounding       *)
(* rectangle and announces view changes.                                   *)
(***************************************************************************)
Views ==
    {[x0 |-> 0 - 2, x1 |-> 2, y0 |-> 0 - 2, y1 |-> 2, px |-> 10],
     [x0 |-> 0, x1 |-> 4, y0 |-> 0, y1 |-> 2, px |-> 20]}

InitCache ==
    \E b \in {<<None, None>>, <<Some(0 - 1), Some(1)>>} :
        InitWith(Arg("point", 0, 0), 90, FALSE, b, FALSE, FALSE)

NextCache ==
    \/ \E v \in Views : ViewTransformChanged(v)
    \/ BoundingRect
    \/ \E a \in {0, 45, 135} : SetAngle(a)
    \/ \E a \in PosArgs : SetPos(a)

SpecCache == InitCache /\ [][NextCache]_vars

(***************************************************************************)
(* SpecLabel: the label shown inside a view and dragged along the line.    *)
(* Drags that would take orthoPos beyond MaxOrtho are left out.            *)
(***************************************************************************)
MaxOrtho == 1
LabelPtrArgs == {<<0, 0>>, <<1, 1>>}
OrthoInRange == orthoPos'[1] <= MaxOrtho * orthoPos'[2]
                    /\ orthoPos'[1] >= (0 - MaxOrtho) * orthoPos'[2]

InitLabel ==
    \E ang \in {90}, drag \in BOOLEAN :
        InitWith(Arg("point", 0, 0), ang, FALSE, <<None, None>>, TRUE, drag)

NextLabel ==
    \/ \E v \in Views : ViewTransformChanged(v)
    \/ \E b \in Buttons, down \in LabelPtrArgs, pos \in LabelPtrArgs :
          LabelDragStart(b, down, pos) /\ OrthoInRange
    \/ \E pos \in LabelPtrArgs : LabelDragMove(pos) /\ OrthoInRange
    \/ \E pos \in LabelPtrArgs : LabelDragFinish(pos) /\ OrthoInRange
    \/ \E b \in Buttons : LabelClick(b)
    \/ \E state \in BOOLEAN : SetDraggableLabel(state)
    \/ \E state \in BOOLEAN : ShowLabel(state)
    \/ \E position \in {<<0, 1>>, <<1, 2>>, <<1, 1>>} : SetTextLocation(position)
SpecLabel == InitLabel /\ [][NextLabel]_vars

(***************************************************************************)
(* SpecHover: the pointer moves over and off the line while its pens and   *)
(* its movability are set.  SpecPen adds direct calls of setMouseHover.    *)
(***************************************************************************)
PenArgs == {mkPen("blue", 1), mkPen("red", 3)}

InitHover ==
    \E mov \in BOOLEAN :
        InitWith(Arg("point", 0, 0), 90, mov, <<None, None>>, FALSE, FALSE)

NextHover ==
    \/ \E isExit \in BOOLEAN, acceptDrags \in BOOLEAN : HoverEvent(isExit, acceptDrags)
    \/ \E m \in BOOLEAN : SetMovable(m)
    \/ \E a \in PenArgs : SetPen(a)
    \/ \E a \in PenArgs : SetHoverPen(a)

SpecHover == InitHover /\ [][NextHover]_vars

NextPen ==
    \/ \E isExit \in BOOLEAN, acceptDrags \in BOOLEAN : HoverEvent(isExit, acceptDrags)
    \/ \E m \in BOOLEAN : SetMovable(m)
    \/ \E a \in PenArgs : SetPen(a)
    \/ \E a \in PenArgs : SetHoverPen(a)
    \/ \E hover \in BOOLEAN : SetMouseHover(hover)

SpecPen == InitHover /\ [][NextPen]_vars

(***************************************************************************)
(* SpecTransform: the label as a TextItem; the host changes the scene      *)
(* transform of its parent, reparents it, and asks it to update or paint.  *)
(***************************************************************************)
Transforms ==
    {Identity,
     [m11 |-> 1, m12 |-> 0, m21 |-> 0, m22 |-> 1, dx |-> 3, dy |-> 1],
     [m11 |-> 2, m12 |-> 0, m21 |-> 0, m22 |-> 2, dx |-> 3, dy |-> 1],
     [m11 |-> 0, m12 |-> 1, m21 |-> 0 - 1, m22 |-> 0, dx |-> 0, dy |-> 0],
     [m11 |-> 2, m12 |-> 0, m21 |-> 0, m22 |-> 0 - 4, dx |-> 0, dy |-> 5],
     [m11 |-> 1, m12 |-> 1, m21 |-> 0, m22 |-> 2, dx |-> 1, dy |-> 0]}

InitTransform ==
    \E label \in BOOLEAN :
        InitWith(Arg("point", 0, 0), 90, FALSE, <<None, None>>, label, FALSE)

NextTransform ==
    \/ \E t \in Transforms : SceneTransformChanged(t)
    \/ \E b \in BOOLEAN : TextSetParentItem(b)
    \/ TextViewTransformChanged
    \/ TextPaint

SpecTransform == InitTransform /\ [][NextTransform]_vars

(***************************************************************************)
(* SpecBounds: a movable line constructed with bounds [min, max], set      *)
(* through its interface, turned between horizontal and vertical, and      *)
(* dragged.                                                                *)
(***************************************************************************)
TwoSidedBounds ==
    {<<Some(0 - 1), Some(1)>>, <<Some(0), Some(0)>>,
     <<Some(0 - MaxCoord), Some(MaxCoord)>>}

BoundsPosArgs ==
    {Arg("scalar", v, 0) : v \in Coord}
        \cup {Arg("list", xy[1], xy[2]) : xy \in PairArgs}

InitBounds ==
    \E ang \in {0, 90} :
        InitWith(Arg("point", 0, 0), ang, TRUE, <<Some(0 - 1), Some(1)>>, FALSE, FALSE)

NextBounds ==
    \/ \E a \in BoundsPosArgs : SetPos(a)
    \/ \E v \in {0 - MaxCoord, MaxCoord} : SetValue(v)
    \/ \E b \in TwoSidedBounds : SetBounds(b)
    \/ \E a \in {0, 90} : SetAngle(a)
    \/ \E down \in PtrArgs, pos \in PtrArgs : LineDragStart("Left", down, pos)
    \/ \E pos \in PtrArgs : LineDragMove(pos)
    \/ \E pos \in PtrArgs : LineDragFinish(pos)
    \/ LineClick("Right")

SpecBounds == InitBounds /\ [][NextBounds]_vars

(***************************************************************************)
(* Vocabulary of the properties.                                           *)
(***************************************************************************)
AxisAligned == angle \in {0, 90}
ScalarCall(c) == c.op \in {"setPos", "setValue"} /\ c.arg.form = "scalar"

\* the scalar value() of an axis-aligned line
ValueNum == IF angle = 0 THEN p.y ELSE p.x

\* r lies within the range; an absent bound constrains nothing
Within(r, range) ==
    /\ range[1] = None \/ r >= range[1][1]
    /\ range[2] = None \/ r <= range[2][1]

\* r is v clamped into the range (min <= max)
IsClampOf(r, v, range) ==
    /\ Within(r, range)
    /\ Within(v, range) => r = v
    /\ (range[1] # None /\ v < range[1][1]) => r = range[1][1]
    /\ (range[2] # None /\ v > range[2][1]) => r = range[2][1]

\* the program state a failed call must leave alone
lineFields == <<angle, p, qpos, maxRange, movable, moving, cursorOffset,
                startPosition, _line, _boundingRect>>
labelFields == <<visible, text, orthoPos, labelMovable, _moving, _cursorOffset,
                 _startPosition, labelPos>>

(***************************************************************************)
(* C1: on an axis-aligned line, setPos(v) / setValue(v) with a scalar v    *)
(* leaves value() equal to v clamped into [min, max]; an absent bound      *)
(* imposes no constraint on its side.                                      *)
(***************************************************************************)
C1_ScalarSetPosClamps ==
    (ScalarCall(lastCall) /\ AxisAligned) =>
        /\ raised = ""
        /\ value(Cur).form = "num"
        /\ IsClampOf(value(Cur).n, lastCall.arg.x, maxRange)

\* bounds [-1, 1], setPos(2) on a vertical line: the value is 1
C1_Witness ==
    /\ ScalarCall(lastCall) /\ lastCall.arg.x = MaxCoord
    /\ angle = 90 /\ maxRange = <<Some(0 - 1), Some(1)>>
    /\ p.x = 1

(***************************************************************************)
(* C2: setPos is a no-op (no position-changed notification, cache kept)    *)
(* whenever the position that results after clamping equals the current    *)
(* position, for every accepted argument form.                             *)
(***************************************************************************)
C2_NoOpWhenUnchanged ==
    [][(lastCall'.op = "setPos" /\ raised' = "" /\ p'.x = p.x /\ p'.y = p.y)
          => /\ emitted' = <<>>
             /\ UNCHANGED <<qpos, _line, _boundingRect>>
             /\ UNCHANGED labelFields]_vars

(***************************************************************************)
(* C4: a scalar setPos / setValue on a line whose angle is neither 0 nor   *)
(* 90 raises the invalid-position-argument error and changes nothing:      *)
(* position, bounds, cache, drag state, label, and nothing is emitted.     *)
(***************************************************************************)
C4_ScalarOnDiagonalRaises ==
    [][(ScalarCall(lastCall') /\ ~AxisAligned)
          => /\ raised' = "Exception"
             /\ emitted' = <<>>
             /\ UNCHANGED lineFields
             /\ UNCHANGED labelFields]_vars

\* raised on a diagonal line whose cached geometry is present, and kept
C4_Witness ==
    /\ ScalarCall(lastCall) /\ lastCall.arg.x # 0
    /\ angle = 45
    /\ raised = "Exception"
    /\ _boundingRect # None /\ _line # None

(***************************************************************************)
(* C5: after setAngle(a) the stored angle lies in [-45, 135) and is        *)
(* congruent to a modulo 180 (134 stays, 135 wraps to -45, 180 becomes 0,  *)
(* -46 becomes 134); setAngle of the stored angle gives it back.           *)
(***************************************************************************)
C5_AngleNormalized ==
    /\ angle >= 0 - 45 /\ angle < 135
    /\ setAngle(Cur, angle).angle = angle
    /\ lastCall.op = "setAngle" =>
          /\ (angle - lastCall.arg) % 180 = 0
          /\ lastCall.arg = 134 => angle = 134
          /\ lastCall.arg = 135 => angle = 0 - 45
          /\ lastCall.arg = 180 => angle = 0
          /\ lastCall.arg = 0 - 46 => angle = 134

C5_Witness == lastCall.op = "setAngle" /\ lastCall.arg = 135 /\ angle = 0 - 45

(***************************************************************************)
(* C6: on a horizontal or vertical line with v inside the bounds (or no    *)
(* bounds), setValue(v) then value() gives v, from any prior state;        *)
(* value() is the y-coordinate for angle 0, the x-coordinate for angle 90  *)
(* and the whole point for any other angle.                                *)
(***************************************************************************)
C6_ValueRoundTrip ==
    /\ (lastCall.op = "setValue" /\ AxisAligned /\ Within(lastCall.arg.x, maxRange))
          => value(Cur) = [form |-> "num", n |-> lastCall.arg.x, obj |-> None]
    /\ angle = 0 => value(Cur) = [form |-> "num", n |-> p.y, obj |-> None]
    /\ angle = 90 => value(Cur) = [form |-> "num", n |-> p.x, obj |-> None]
    /\ ~AxisAligned => value(Cur) = [form |-> "obj", n |-> 0, obj |-> Some(p)]

\* a horizontal line with bounds [-1, 1] set to y = 1
C6_Witness ==
    /\ lastCall.op = "setValue" /\ lastCall.arg.x = 1
    /\ angle = 0 /\ maxRange = <<Some(0 - 1), Some(1)>>
    /\ p = [kind |-> "list", x |-> 0, y |-> 1]

(***************************************************************************)
(* C7: setBounds(b) replaces the clamp range and re-clamps the position:   *)
(* on an axis-aligned line value() then lies in [min, max], and a          *)
(* position-changed notification is emitted if the value moved.            *)
(***************************************************************************)
C7_SetBoundsReclamps ==
    [][(lastCall'.op = "setBounds" /\ AxisAligned)
          => /\ raised' = ""
             /\ maxRange' = lastCall'.arg
             /\ IsClampOf(ValueNum', ValueNum, maxRange')
             /\ ValueNum' # ValueNum => emitted' = <<"sigPositionChanged">>]_vars

\* a vertical line beyond x = 1 (x = 2 under bounds [-2, 2]); setBounds([-1, 1])
\* brings it to x = 1 and notifies
C7_Witness ==
    /\ lastCall.op = "setBounds" /\ lastCall.arg = <<Some(0 - 1), Some(1)>>
    /\ angle = 90 /\ p.x = 1
    /\ emitted = <<"sigPositionChanged">>

(***************************************************************************)
(* C3: a left-button drag that starts with the line at P and the pointer   *)
(* at Q puts the line, on a drag-move with the pointer at Q + D, at P + D  *)
(* (the bounded coordinate clamped on an axis-aligned line); a right-      *)
(* button click while the drag is in progress restores exactly P.          *)
(***************************************************************************)
PosIsClamped(pp, T) ==
    IF angle = 90 THEN IsClampOf(pp.x, T[1], maxRange) /\ pp.y = T[2]
    ELSE IF angle = 0 THEN pp.x = T[1] /\ IsClampOf(pp.y, T[2], maxRange)
    ELSE pp.x = T[1] /\ pp.y = T[2]

Dragging == moving /\ dragItem = "line"

C3_DragMovesCancelRestores ==
    [][/\ (/\ lastCall.op = "lineDragStart" /\ lastCall.arg[1] = "Left"
           /\ Dragging /\ movable
           /\ lastCall'.op = "lineDragMove")
          => LET P == startPosition[1]
                 Q == lastCall.arg[2]
                 R == lastCall'.arg
             IN  PosIsClamped(p', <<P[1] + R[1] - Q[1], P[2] + R[2] - Q[2]>>)
       /\ (Dragging /\ lastCall'.op = "lineClick" /\ lastCall'.arg = "Right")
          => /\ p'.x = startPosition[1][1]
             /\ p'.y = startPosition[1][2]]_vars

(***************************************************************************)
(* C8: whenever the label is visible its text is the format template       *)
(* applied to the line's current value(): recomputed on every position-    *)
(* changed notification and when the label becomes visible.                *)
(***************************************************************************)
C8_VisibleTextCurrent == visible => text = Format(value(Cur))

(***************************************************************************)
(* C9: a right-button click on the label while a label drag is in progress *)
(* restores orthoPos to its value at drag-start and ends the label drag,   *)
(* without raising an error.                                               *)
(***************************************************************************)
LabelDragging == _moving = "True" /\ dragItem = "label"

C9_LabelCancelRestores ==
    [][(LabelDragging /\ lastCall'.op = "labelClick" /\ lastCall'.arg = "Right")
          => /\ raised' = ""
             /\ orthoPos' = _startPosition[1]
             /\ _moving' = "False"]_vars

(***************************************************************************)
(* C10: the cached geometry is cleared by a setPos that changes the        *)
(* position, by every setAngle call and by every view-transform-changed    *)
(* notification, so that the next boundingRect() is computed from the      *)
(* current state.                                                          *)
(***************************************************************************)
RectNow == ComputeRect(Cur)

C10_TriggersClearCache ==
    [][/\ ( \/ (lastCall'.op = "setPos" /\ (p'.x # p.x \/ p'.y # p.y))
            \/ lastCall'.op = "setAngle"
            \/ lastCall'.op = "viewTransformChanged" )
          => (_boundingRect' = None /\ _line' = None)
       /\ (lastCall'.op = "boundingRect") => (_boundingRect' = Some(RectNow'))]_vars

(***************************************************************************)
(* C11: when setPos changes the position, exactly one position-changed     *)
(* notification is delivered before setPos returns, and the observers that *)
(* run see the stored position already equal to the new clamped position   *)
(* and the geometry cache already cleared; no observer sees the old        *)
(* position paired with the notification.                                  *)
(***************************************************************************)
C11_NotifiedWithNewPosition ==
    [][/\ (/\ lastCall'.op \in {"setPos", "setValue"}
           /\ raised' = ""
           /\ (p'.x # p.x \/ p'.y # p.y))
          => (/\ emitted' = <<"sigPositionChanged">>
              /\ Len(observed') = 1)
       /\ \A i \in 1..Len(observed') :
             /\ observed'[i].p = p'
             /\ observed'[i].qpos = <<p'.x, p'.y>>
             /\ observed'[i].cleared]_vars

(***************************************************************************)
(* C12: with the label visible and attached to a view whose rectangle,     *)
(* mapped into the line's local frame, spans [lo, hi] along the line axis, *)
(* updatePosition() puts the label at hi * orthoPos + lo * (1 - orthoPos)  *)
(* along the axis and at 0 across it; for the extent [0, 100] orthoPos 1/2 *)
(* gives 50, 0 gives 0 and 1 gives 100; orthoPos is not clamped to [0, 1]. *)
(***************************************************************************)
\* lo + (hi - lo) * n / d, over the common denominator d
AlongAxis(lo, hi, o) == Rat(hi * o[1] + lo * (o[2] - o[1]), o[2])

PlacesLabel(c) ==
    \/ c.op \in {"viewTransformChanged", "setTextLocation"}
    \/ c.op = "showLabel" /\ c.arg = TRUE
    \/ c.op \in {"labelDragStart", "labelDragMove", "labelDragFinish"}
          /\ orthoPos' # orthoPos

C12_LabelPlacement ==
    [][/\ (PlacesLabel(lastCall') /\ visible' /\ view' # None)
          => labelPos' = <<AlongAxis(ViewExtent(Cur').left, ViewExtent(Cur').right,
                                     orthoPos'),
                           RatInt(0)>>
       /\ Interpolate(RatInt(0), RatInt(100), <<1, 2>>) = RatInt(50)
       /\ Interpolate(RatInt(0), RatInt(100), <<0, 1>>) = RatInt(0)
       /\ Interpolate(RatInt(0), RatInt(100), <<1, 1>>) = RatInt(100)
       /\ Interpolate(RatInt(0), RatInt(100), <<3, 2>>) = RatInt(150)
       /\ Interpolate(RatInt(0), RatInt(100), <<0 - 1, 2>>) = RatInt(0 - 50)]_vars

\* a drag has taken orthoPos below 0: the label sits before the low end of
\* the visible span
C12_Witness ==
    /\ lastCall.op \in {"labelDragStart", "labelDragMove"}
    /\ visible /\ view # None
    /\ orthoPos[1] < 0
    /\ labelPos[1][1] < ViewExtent(Cur).left * labelPos[1][2]
    /\ labelPos[2] = RatInt(0)

(***************************************************************************)
(* C13: hovering is disabled on a line that is not movable: in every       *)
(* reachable state, also after setMovable(False) while the pointer hovers, *)
(* a non-movable line is not in the hover state and is drawn with the      *)
(* resting pen.                                                            *)
(***************************************************************************)
C13_NoHoverUnlessMovable ==
    ~movable => (~mouseHovering /\ currentPen = pen)

(***************************************************************************)
(* C16: after construction and after any sequence of setPen, setHoverPen,  *)
(* hoverEvent, setMouseHover and setMovable calls, the pen used for        *)
(* rendering is the current hover pen if the line is in the hover state    *)
(* and the current resting pen otherwise, never a pen since replaced.      *)
(***************************************************************************)
C16_PenSelection ==
    currentPen = IF mouseHovering THEN hoverPen ELSE pen

\* the hover pen replaced while hovering: the new hover pen is in use
C16_Witness ==
    /\ lastCall.op = "setHoverPen" /\ lastCall.arg = mkPen("blue", 1)
    /\ mouseHovering
    /\ pen = mkPen("red", 3)
    /\ currentPen = mkPen("blue", 1)

(***************************************************************************)
(* C14: the line enters Dragging only on a left-button drag-start while    *)
(* movable; every Dragging -> Idle transition (drag-finish or right-click  *)
(* cancel) emits position-change-finished exactly once, preceded in the    *)
(* same event by a dragged notification; position-change-finished is never *)
(* emitted while the line stays Idle or stays Dragging.                    *)
(***************************************************************************)
SigCount(seq, sig) == Cardinality({i \in 1..Len(seq) : seq[i] = sig})

DraggedThenFinished(seq) ==
    /\ SigCount(seq, "sigPositionChangeFinished") = 1
    /\ \E i, j \in 1..Len(seq) :
          /\ i < j
          /\ seq[i] = "sigDragged"
          /\ seq[j] = "sigPositionChangeFinished"

C14_DragStateMachine ==
    [][/\ (~moving /\ moving')
          => (/\ lastCall'.op = "lineDragStart"
              /\ lastCall'.arg[1] = "Left"
              /\ movable)
       /\ (moving /\ ~moving')
          => (/\ lastCall'.op \in {"lineDragFinish", "lineClick"}
              /\ DraggedThenFinished(emitted'))
       /\ (moving' = moving)
          => SigCount(emitted', "sigPositionChangeFinished") = 0]_vars

\* a drag that moved the line, cancelled by a right click
C14_Witness ==
    /\ lastCall.op = "lineClick" /\ lastCall.arg = "Right"
    /\ ~moving
    /\ emitted = <<"sigPositionChanged", "sigDragged", "sigPositionChangeFinished">>

(***************************************************************************)
(* C15: after a right-click cancel, the remaining drag-move and drag-      *)
(* finish events of the same gesture leave the position where the cancel   *)
(* put it and emit no dragged, position-changed or position-change-        *)
(* finished notification; the line moves again only after a new            *)
(* drag-start.                                                             *)
(***************************************************************************)
\* the gesture is still being delivered to the line, but the drag is over
Cancelled == dragItem = "line" /\ ~moving

C15_EventsAfterCancelIgnored ==
    [][(Cancelled /\ lastCall'.op \in {"lineDragMove", "lineDragFinish"})
          => (/\ emitted' = <<>>
              /\ raised' = ""
              /\ UNCHANGED <<p, qpos, moving>>)]_vars

\* a move event after the cancel, with the pointer away from where the drag
\* started: the movable line stays at the start position
C15_Witness ==
    /\ lastCall.op = "lineDragMove"
    /\ Cancelled /\ movable
    /\ emitted = <<>>
    /\ qpos = startPosition[1]
    /\ <<cursorOffset[1][1] + lastCall.arg[1], cursorOffset[1][2] + lastCall.arg[2]>>
          # startPosition[1]

(***************************************************************************)
(* C17: in every reachable state the cached line segment and the cached    *)
(* bounding rectangle are both absent or both present, and when present    *)
(* the segment runs along the local x-axis between the left and right      *)
(* edges of the cached rectangle.                                          *)
(***************************************************************************)
C17_CacheConsistent ==
    /\ (_line = None) <=> (_boundingRect = None)
    /\ _line # None =>
          /\ _line[1].x1 = _boundingRect[1].right
          /\ _line[1].x2 = _boundingRect[1].left

\* the cache filled by boundingRect() after it had been cleared by a move
C17_Witness ==
    /\ lastCall.op = "boundingRect"
    /\ _line # None /\ _boundingRect # None
    /\ p.x # 0

(***************************************************************************)
(* C18: with the label movable, a left-button drag-start records the       *)
(* pointer's relative position along the visible span (startRelative) and  *)
(* the current orthoPos (startOrthoPos); every drag-move of the gesture    *)
(* sets orthoPos = startOrthoPos + currentRelative - startRelative, with   *)
(* no clamping; the line's position and drag state are not changed.        *)
(***************************************************************************)
\* r is the position of the parent point pt relative to the visible span
IsRelative(r, pt) ==
    LET vr == ViewExtent(Cur)
    IN  r[1] * (vr.right - vr.left) = (LocalX(Cur, pt[1], pt[2]) - vr.left) * r[2]

LabelDragOps == {"labelDragStart", "labelDragMove", "labelDragFinish"}

C18_LabelDrag ==
    [][/\ (/\ lastCall'.op = "labelDragStart" /\ lastCall'.arg[1] = "Left"
           /\ labelMovable /\ raised' = "")
          => (/\ _moving' = "True"
              /\ _startPosition' = Some(orthoPos)
              /\ _cursorOffset' # None
              /\ IsRelative(_cursorOffset'[1], lastCall'.arg[2]))
       /\ (/\ lastCall'.op = "labelDragMove"
           /\ labelMovable /\ _moving = "True" /\ raised' = "")
          => \E r \in {posToRel(Cur, lastCall'.arg).rel} :
                /\ IsRelative(r, lastCall'.arg)
                /\ orthoPos' = RatSub(RatAdd(_startPosition[1], r), _cursorOffset[1])
       /\ (lastCall'.op \in LabelDragOps)
          => UNCHANGED <<angle, p, qpos, moving, cursorOffset, startPosition>>]_vars

\* a drag-move that takes orthoPos from 0 to -1/4, outside [0, 1]
C18_Witness ==
    /\ lastCall.op = "labelDragMove"
    /\ _moving = "True" /\ labelMovable
    /\ _startPosition = Some(<<0, 1>>)
    /\ orthoPos = <<0 - 1, 4>>

(***************************************************************************)
(* C19: on a label that is not visible or not attached to a view,          *)
(* the line's view-transform-changed handling, setTextLocation and label   *)
(* drag-start / drag-move events (each of which ends in updatePosition())  *)
(* leave the label's position unchanged and raise no error.                *)
(***************************************************************************)
C19_DetachedLabelNoOp ==
    [][(/\ lastCall'.op \in {"viewTransformChanged", "setTextLocation",
                              "labelDragStart", "labelDragMove"}
        /\ (~visible' \/ view' = None))
          => (labelPos' = labelPos /\ raised' = "")]_vars

(***************************************************************************)
(* C20: after any updateTransform() call the remembered transform equals   *)
(* the parent's current scene transform (identity without a parent) and    *)
(* the item's own transform is the inverse of that transform with its      *)
(* translation zeroed; a second call with an unchanged parent transform    *)
(* changes nothing, and a changed parent transform is picked up by the     *)
(* next call.                                                              *)
(***************************************************************************)
UpdateOps == {"textViewTransformChanged", "textPaint"}

ParentNow == IF hasParent THEN sceneTransform ELSE Identity

\* t composed with the linear part of pt is the identity; t translates by 0
InvertsLinearPart(t, pt) ==
    /\ RatAdd(RatMul(t.m11, RatInt(pt.m11)), RatMul(t.m12, RatInt(pt.m21))) = RatInt(1)
    /\ RatAdd(RatMul(t.m11, RatInt(pt.m12)), RatMul(t.m12, RatInt(pt.m22))) = RatInt(0)
    /\ RatAdd(RatMul(t.m21, RatInt(pt.m11)), RatMul(t.m22, RatInt(pt.m21))) = RatInt(0)
    /\ RatAdd(RatMul(t.m21, RatInt(pt.m12)), RatMul(t.m22, RatInt(pt.m22))) = RatInt(1)
    /\ t.dx = RatInt(0) /\ t.dy = RatInt(0)

C20_TransformMemo ==
    [][/\ (lastCall'.op \in UpdateOps)
          => (/\ _lastTransform' = Some(ParentNow')
              /\ InvertsLinearPart(transform', ParentNow'))
       /\ (lastCall'.op \in UpdateOps /\ _lastTransform = Some(ParentNow))
          => UNCHANGED <<transform, _lastTransform>>]_vars

\* the parent scaled by 2 and translated: the label scales by 1/2 and does
\* not translate
C20_Witness ==
    /\ lastCall.op \in UpdateOps
    /\ hasParent
    /\ sceneTransform = [m11 |-> 2, m12 |-> 0, m21 |-> 0, m22 |-> 2, dx |-> 3, dy |-> 1]
    /\ _lastTransform = Some(sceneTransform)
    /\ transform.m11 = <<1, 2>> /\ transform.m22 = <<1, 2>>
    /\ transform.dx = <<0, 1>>

(***************************************************************************)
(* C21: setBounds on an axis-aligned line whose value already lies inside  *)
(* the new bounds leaves the whole 2D position unchanged, the value        *)
(* coordinate and the other one, and emits no position-changed             *)
(* notification.                                                           *)
(***************************************************************************)
C21_SetBoundsInsideKeepsPosition ==
    [][(/\ lastCall'.op = "setBounds"
        /\ AxisAligned
        /\ Within(ValueNum, lastCall'.arg))
          => (/\ p'.x = p.x /\ p'.y = p.y
              /\ qpos' = qpos
              /\ emitted' = <<>>)]_vars

(***************************************************************************)
(* C22: for a line constructed with bounds [min, max], in every state      *)
(* reachable by setPos, setValue, setBounds (min <= max), setAngle between *)
(* 0 and 90, drag-start / move / finish and right-click cancel, whenever   *)
(* the line is axis-aligned its value() lies within the current bounds.    *)
(***************************************************************************)
C22_ValueWithinBounds ==
    AxisAligned => (value(Cur).form = "num" /\ Within(value(Cur).n, maxRange))

(***************************************************************************)
(* C23: a right-button click changes the line's position or emits          *)
(* notifications only while a drag gesture is in progress; once the        *)
(* gesture's drag-finish event has been delivered a right click is a       *)
(* no-op, for every interleaving of setMovable calls with the drag events. *)
(***************************************************************************)
\* no gesture is being delivered to the line: none was started, or the
\* finish event of the last one has been delivered
NoGesture == dragItem = "none"

C23_RightClickOutsideGestureNoOp ==
    [][(NoGesture /\ lastCall'.op = "lineClick" /\ lastCall'.arg = "Right")
          => (/\ emitted' = <<>>
              /\ UNCHANGED <<p, qpos, moving>>)]_vars

====
